---- MODULE Spec2Model ----
(***************************************************************************)
(* A model of the pdf-extractor core: the text-cleaning policy             *)
(* (SpanData.clean_text), the hierarchy built from the upstream page JSON, *)
(* the height variation of a line (LineData.height_variation),            *)
(* the chunk constructors of TextChunk (one per granularity), the          *)
(* two entry points of Extractor (extract_pdf, page_data_to_text_chunks)   *)
(* and the /extract handler of main.py.                                    *)
(*                                                                         *)
(* A Python str is a sequence of one-character strings, a float is an      *)
(* integer, an Optional value is <<>> (None) or <<v>>.                     *)
(***************************************************************************)
EXTENDS Integers, Sequences, FiniteSets, TLC

VARIABLES
    pc,             \* the position of the run in progress
    text,           \* SpanData.text handed to clean_text
    settings,       \* Optional[TextExtractionSettings] of the call
    cleaned,        \* clean_text(text, settings)
    recleaned,      \* clean_text(cleaned, settings)
    block_json,     \* one upstream block record
    block_data,     \* BlockData.from_pymupdf_block_json(block_json)
    span_chunks,    \* per line, per span: TextChunk.from_span_data
    line_chunks,    \* per line: TextChunk.from_line_data
    block_chunk,    \* Optional: TextChunk.from_block_data
    upstream_calls, \* per url: fetches of the document (requests.get)
    extract_calls,  \* per url: calls of Extractor.extract_pdf
    page_json,      \* the page records the last fetch produced
    pdf_page_data,  \* List[PageData] returned by extract_pdf
    by,             \* granularity argument of the last chunk call
    kwargs,         \* Optional settings passed as keyword arguments
    outcome,        \* how the last chunk call ended, and what it returned
    http_status,    \* status of the last /extract response (0: none)
    measured_json,  \* one upstream line record
    measured_line,  \* LineData.from_pymupdf_line_json(measured_json)
    variation       \* Optional: measured_line.height_variation

textVars == <<text, cleaned, recleaned>>
chunkVars == <<block_json, block_data, span_chunks, line_chunks, block_chunk>>
serviceVars == <<upstream_calls, extract_calls, page_json, pdf_page_data, by,
                 kwargs, outcome, http_status>>
heightVars == <<measured_json, measured_line, variation>>
vars == <<pc, settings, textVars, chunkVars, serviceVars, heightVars>>

None == <<>>
Some(v) == <<v>>

----------------------------------------------------------------------------
(* Bounds of the model. *)

MaxTextLen == 3
MaxMinWordLength == 2
MaxCoord == 2
MaxSpans == 2
MaxLines == 2
MaxBlocks == 2
MaxPages == 2
MaxCalls == 2

----------------------------------------------------------------------------
(* Characters and strings. *)

Whitespace == {" ", "\t", "\n", "\r"}
Alphabetic == {"a", "b"}
Chars == {"a", "b", "1", " ", "\t"}

RECURSIVE SeqsUpTo(_, _)
SeqsUpTo(S, n) ==
    IF n = 0 THEN {<<>>}
    ELSE LET shorter == SeqsUpTo(S, n - 1)
         IN  shorter \cup {Append(q, x) : q \in shorter, x \in S}

Texts == SeqsUpTo(Chars, MaxTextLen)

MinWordFrequencies == {0, 4}

TextExtractionSettings ==
    [filter_non_english_words : BOOLEAN,
     min_word_length : 0..MaxMinWordLength,
     min_word_frequency : MinWordFrequencies,
     remove_non_alpha : BOOLEAN]

RECURSIVE SplitFrom(_, _, _, _)
SplitFrom(s, i, word, words) ==
    IF i > Len(s)
    THEN IF word = <<>> THEN words ELSE Append(words, word)
    ELSE IF s[i] \in Whitespace
         THEN SplitFrom(s, i + 1, <<>>,
                        IF word = <<>> THEN words ELSE Append(words, word))
         ELSE SplitFrom(s, i + 1, Append(word, s[i]), words)

\* str.split() with no separator: the maximal runs of non-whitespace.
split(s) == SplitFrom(s, 1, <<>>, <<>>)

RECURSIVE join(_, _)
\* sep.join(parts)
join(sep, parts) ==
    IF parts = <<>> THEN <<>>
    ELSE IF Len(parts) = 1 THEN parts[1]
    ELSE parts[1] \o sep \o join(sep, Tail(parts))

\* str.isalpha(): non-empty and every character alphabetic.
isalpha(word) == word # <<>> /\ \A i \in 1..Len(word) : word[i] \in Alphabetic

\* wordfreq.zipf_frequency(word, lang="en"): a fixed score per word.
zipf_frequency(word) ==
    IF word = <<"a">> THEN 7
    ELSE IF word = <<"b">> THEN 5
    ELSE IF isalpha(word) /\ Len(word) = 2 THEN 3
    ELSE 0

\* A mutant of clean_text_keeps: the length test is <= instead of <.
clean_text_keeps_le(word, s) ==
    /\ ~(s.remove_non_alpha /\ ~isalpha(word))
    /\ ~(Len(word) <= s.min_word_length)
    /\ ~(s.filter_non_english_words
         /\ zipf_frequency(word) < s.min_word_frequency)

\* The body of clean_text's loop: TRUE when no `continue` is taken.
clean_text_keeps(word, s) ==
    /\ ~(s.remove_non_alpha /\ ~isalpha(word))
    /\ ~(Len(word) < s.min_word_length)
    /\ ~(s.filter_non_english_words
         /\ zipf_frequency(word) < s.min_word_frequency)

RECURSIVE clean_text_loop(_, _, _)
clean_text_loop(words, s, acc) ==
    IF words = <<>> THEN acc
    ELSE clean_text_loop(Tail(words), s,
                         IF clean_text_keeps(Head(words), s)
                         THEN Append(acc, Head(words)) ELSE acc)

\* A mutant of clean_text: the surviving words are joined with no separator.
clean_text_nosep(t, s) == join(<<>>, clean_text_loop(split(t), s, <<>>))

\* SpanData.clean_text
clean_text(t, s) == join(<<" ">>, clean_text_loop(split(t), s, <<>>))

----------------------------------------------------------------------------
(* Geometry and the hierarchy built from the upstream JSON. *)

\* A mutant of from_pymupdf_bbox_list: the corners are put in order.
from_pymupdf_bbox_list_sorted(bbox_list) ==
    LET min(a, b) == IF a < b THEN a ELSE b
        max(a, b) == IF a < b THEN b ELSE a
    IN  [bottom_left |-> [x |-> min(bbox_list[1], bbox_list[3]),
                          y |-> min(bbox_list[2], bbox_list[4])],
         top_right   |-> [x |-> max(bbox_list[1], bbox_list[3]),
                          y |-> max(bbox_list[2], bbox_list[4])]]

\* BoundingBox.from_pymupdf_bbox_list (Python indexes from 0)
from_pymupdf_bbox_list(bbox_list) ==
    [bottom_left |-> [x |-> bbox_list[1], y |-> bbox_list[2]],
     top_right   |-> [x |-> bbox_list[3], y |-> bbox_list[4]]]

px_left(box) == box.bottom_left.x
px_bottom(box) == box.bottom_left.y
width(box) == box.top_right.x - box.bottom_left.x
height(box) == box.top_right.y - box.bottom_left.y

\* SpanData.from_pymupdf_span_json
from_pymupdf_span_json(span_json) ==
    [bounding_box |-> from_pymupdf_bbox_list(span_json.bbox),
     text |-> span_json.text]

\* LineData.from_pymupdf_line_json
from_pymupdf_line_json(line_json) ==
    [bounding_box |-> from_pymupdf_bbox_list(line_json.bbox),
     spans |-> [i \in 1..Len(line_json.spans) |->
                   from_pymupdf_span_json(line_json.spans[i])]]

\* BlockData.from_pymupdf_block_json
from_pymupdf_block_json(block) ==
    [bounding_box |-> from_pymupdf_bbox_list(block.bbox),
     index |-> block.number,
     lines |-> [i \in 1..Len(block.lines) |->
                   from_pymupdf_line_json(block.lines[i])]]

\* PageData.from_pymupdf_textpage_json
from_pymupdf_textpage_json(textpage_json, page_number) ==
    [height |-> textpage_json.height,
     width |-> textpage_json.width,
     page_number |-> page_number,
     blocks |-> [i \in 1..Len(textpage_json.blocks) |->
                    from_pymupdf_block_json(textpage_json.blocks[i])]]

(* LineData.height_variation.  A float is modelled by the number it stands
   for.  The quotient std / mean is irrational in general, so it is kept as
   its sign and its square, the square as a fraction of integers. *)

RECURSIVE sum(_)
sum(data) == IF data = <<>> THEN 0 ELSE Head(data) + sum(Tail(data))

RECURSIVE sum_of_squares(_)
sum_of_squares(data) ==
    IF data = <<>> THEN 0
    ELSE Head(data) * Head(data) + sum_of_squares(Tail(data))

sign(x) == IF x > 0 THEN 1 ELSE IF x < 0 THEN -1 ELSE 0

\* statistics.mean(data), as a fraction
mean(data) == [num |-> sum(data), den |-> Len(data)]

\* A mutant of stdev_squared: the population variance, that of pstdev.
pstdev_squared(data) ==
    [num |-> Len(data) * sum_of_squares(data) - sum(data) * sum(data),
     den |-> Len(data) * Len(data)]

\* The square of statistics.stdev(data), as a fraction: the sample variance,
\* the squared deviations from the mean summed and divided by n - 1.
stdev_squared(data) ==
    [num |-> Len(data) * sum_of_squares(data) - sum(data) * sum(data),
     den |-> Len(data) * (Len(data) - 1)]

ZeroFloat == [sign |-> 0, sq_num |-> 0, sq_den |-> 1]

\* LineData.height_variation
height_variation(line) ==
    LET heights == [i \in 1..Len(line.spans) |->
                       height(line.spans[i].bounding_box)]
        m == mean(heights)
        std2 == stdev_squared(heights)
    IN  IF heights = <<>> \/ Len(heights) = 1 THEN ZeroFloat
        ELSE IF m.num = 0 THEN ZeroFloat
        ELSE [sign |-> IF std2.num = 0 THEN 0 ELSE sign(m.num),
              sq_num |-> std2.num * m.den * m.den,
              sq_den |-> std2.den * m.num * m.num]

(* What the constructors raise on an upstream record.  A subscript on an
   absent key raises KeyError, a subscript past the end of a bbox list raises
   IndexError, and the arguments of a constructor call are evaluated from
   left to right, so the first failure is the one raised.  "" stands for a
   construction that raises nothing. *)

first_raised(raised) ==
    LET Test(e) == e # ""
        failures == SelectSeq(raised, Test)
    IN  IF failures = <<>> THEN "" ELSE Head(failures)

\* bbox_list[0] .. bbox_list[3]: entries after the fourth are never read.
from_pymupdf_bbox_list_raises(bbox_list) ==
    IF Len(bbox_list) < 4 THEN "IndexError" ELSE ""

\* span_json["bbox"], then span_json["text"]
from_pymupdf_span_json_raises(span_json) ==
    IF "bbox" \notin DOMAIN span_json THEN "KeyError"
    ELSE IF from_pymupdf_bbox_list_raises(span_json.bbox) # ""
         THEN from_pymupdf_bbox_list_raises(span_json.bbox)
    ELSE IF "text" \notin DOMAIN span_json THEN "KeyError"
    ELSE ""

\* line_json["bbox"], then line_json["spans"] and each span in turn
from_pymupdf_line_json_raises(line_json) ==
    IF "bbox" \notin DOMAIN line_json THEN "KeyError"
    ELSE IF from_pymupdf_bbox_list_raises(line_json.bbox) # ""
         THEN from_pymupdf_bbox_list_raises(line_json.bbox)
    ELSE IF "spans" \notin DOMAIN line_json THEN "KeyError"
    ELSE first_raised([i \in 1..Len(line_json.spans) |->
                          from_pymupdf_span_json_raises(line_json.spans[i])])

\* block["bbox"], block["number"], then block["lines"] and each line in turn
from_pymupdf_block_json_raises(block) ==
    IF "bbox" \notin DOMAIN block THEN "KeyError"
    ELSE IF from_pymupdf_bbox_list_raises(block.bbox) # ""
         THEN from_pymupdf_bbox_list_raises(block.bbox)
    ELSE IF "number" \notin DOMAIN block THEN "KeyError"
    ELSE IF "lines" \notin DOMAIN block THEN "KeyError"
    ELSE first_raised([i \in 1..Len(block.lines) |->
                          from_pymupdf_line_json_raises(block.lines[i])])

\* textpage_json["height"], ["width"], then ["blocks"] and each block in turn
from_pymupdf_textpage_json_raises(textpage_json) ==
    IF "height" \notin DOMAIN textpage_json THEN "KeyError"
    ELSE IF "width" \notin DOMAIN textpage_json THEN "KeyError"
    ELSE IF "blocks" \notin DOMAIN textpage_json THEN "KeyError"
    ELSE first_raised([i \in 1..Len(textpage_json.blocks) |->
                          from_pymupdf_block_json_raises(
                              textpage_json.blocks[i])])

----------------------------------------------------------------------------
(* TextChunk and its three constructors. *)

TextChunk(page_number, t, box) ==
    [page_number |-> page_number,
     text |-> t,
     px_left |-> px_left(box),
     px_bottom |-> px_bottom(box),
     width |-> width(box),
     height |-> height(box)]

\* `span.clean_text(settings) if settings else span.text`
span_text_of(span, opt) ==
    IF opt # None THEN clean_text(span.text, opt[1]) ELSE span.text

\* TextChunk.from_span_data
from_span_data(span_data, page_number, opt) ==
    TextChunk(page_number, span_text_of(span_data, opt), span_data.bounding_box)

\* TextChunk.from_line_data: every span's text is joined, empty or not.
from_line_data(line_data, page_number, opt) ==
    TextChunk(page_number,
              join(<<" ">>, [i \in 1..Len(line_data.spans) |->
                                span_text_of(line_data.spans[i], opt)]),
              line_data.bounding_box)

RECURSIVE line_text_loop(_, _, _)
\* the inner loop of from_block_data: `if span_text: line_text.append(...)`
line_text_loop(spans, opt, line_text) ==
    IF spans = <<>> THEN line_text
    ELSE LET span_text == span_text_of(Head(spans), opt)
         IN  line_text_loop(Tail(spans), opt,
                            IF span_text # <<>>
                            THEN Append(line_text, span_text) ELSE line_text)

RECURSIVE block_text_loop(_, _, _)
\* the outer loop of from_block_data: every line's joined text is appended.
block_text_loop(lines, opt, block_text) ==
    IF lines = <<>> THEN block_text
    ELSE block_text_loop(
             Tail(lines), opt,
             Append(block_text,
                    join(<<" ">>, line_text_loop(Head(lines).spans, opt, <<>>))))

\* TextChunk.from_block_data
from_block_data(block, page_number, opt) ==
    TextChunk(page_number,
              join(<<" ">>, block_text_loop(block.lines, opt, <<>>)),
              block.bounding_box)

----------------------------------------------------------------------------
(* The parts of the state a specification leaves untouched. *)

Urls == {"u1", "u2"}

TextIdle == text = <<>> /\ cleaned = <<>> /\ recleaned = <<>>

ChunkIdle ==
    /\ block_json = None
    /\ block_data = None
    /\ span_chunks = <<>>
    /\ line_chunks = <<>>
    /\ block_chunk = None

HeightIdle ==
    measured_json = None /\ measured_line = None /\ variation = None

ServiceIdle ==
    /\ upstream_calls = [u \in Urls |-> 0]
    /\ extract_calls = [u \in Urls |-> 0]
    /\ page_json = <<>>
    /\ pdf_page_data = <<>>
    /\ by = ""
    /\ kwargs = None
    /\ outcome = [status |-> "", text_chunks |-> <<>>]
    /\ http_status = 0

----------------------------------------------------------------------------
(* TextSpec: clean_text applied to a text, and again to its own result. *)

TextInit ==
    /\ pc = "text"
    /\ text \in Texts
    /\ settings \in {Some(s) : s \in TextExtractionSettings}
    /\ cleaned = <<>>
    /\ recleaned = <<>>
    /\ ChunkIdle
    /\ ServiceIdle
    /\ HeightIdle

CleanText ==
    /\ pc = "text"
    /\ cleaned' = clean_text(text, settings[1])
    /\ pc' = "cleaned"
    /\ UNCHANGED <<text, settings, recleaned, chunkVars, heightVars,
                   serviceVars>>

CleanTextAgain ==
    /\ pc = "cleaned"
    /\ recleaned' = clean_text(cleaned, settings[1])
    /\ pc' = "recleaned"
    /\ UNCHANGED <<text, settings, cleaned, chunkVars, heightVars,
                   serviceVars>>

TextNext == CleanText \/ CleanTextAgain

TextSpec == TextInit /\ [][TextNext]_vars

----------------------------------------------------------------------------
(* ChunkSpec: one upstream block record is built into a BlockData and      *)
(* turned into chunks at each of the three granularities.                  *)

Coords == 0..MaxCoord
BBoxLists == {<<x0, y0, x1, y1>> : x0 \in Coords, y0 \in Coords,
                                   x1 \in Coords, y1 \in Coords}

SpanTexts == {<<>>, <<"1">>}
LineTexts == SeqsUpTo(SpanTexts, MaxSpans)
BlockTexts == SeqsUpTo(LineTexts, MaxLines)

\* The box of line i and of its span j in a block whose box is b: each its own.
LineBox(b, i) == <<b[1] + i, b[2], b[3], b[4] + i>>
SpanBox(b, i, j) == <<b[1], b[2] + j, b[3] + i, b[4]>>

\* An upstream block record: bbox, number, lines; a line: bbox, spans; a
\* span: bbox, text.
BlockJson(b, number, texts) ==
    [bbox |-> b,
     number |-> number,
     lines |-> [i \in 1..Len(texts) |->
                   [bbox |-> LineBox(b, i),
                    spans |-> [j \in 1..Len(texts[i]) |->
                                  [bbox |-> SpanBox(b, i, j),
                                   text |-> texts[i][j]]]]]]

SampleBox == <<0, 0, 2, 1>>
SampleTexts == << <<<<"a">>, <<"1">>>>, <<<<"b">>>> >>

BlockInputs ==
    {BlockJson(SampleBox, 0, t) : t \in BlockTexts}
    \cup {BlockJson(b, 0, SampleTexts) : b \in BBoxLists}

AlphaOnly ==
    [filter_non_english_words |-> FALSE, min_word_length |-> 0,
     min_word_frequency |-> 0, remove_non_alpha |-> TRUE]
ChunkSettings == {None, Some(AlphaOnly)}

ChunkInit ==
    /\ pc = "json"
    /\ settings \in ChunkSettings
    /\ block_json \in {Some(b) : b \in BlockInputs}
    /\ block_data = None
    /\ span_chunks = <<>>
    /\ line_chunks = <<>>
    /\ block_chunk = None
    /\ TextIdle
    /\ ServiceIdle
    /\ HeightIdle

BuildBlock ==
    /\ pc = "json"
    /\ block_data' = Some(from_pymupdf_block_json(block_json[1]))
    /\ pc' = "built"
    /\ UNCHANGED <<settings, block_json, span_chunks, line_chunks, block_chunk,
                   textVars, serviceVars, heightVars>>

SpanChunks ==
    /\ pc = "built"
    /\ span_chunks' =
           [i \in 1..Len(block_data[1].lines) |->
               [j \in 1..Len(block_data[1].lines[i].spans) |->
                   from_span_data(block_data[1].lines[i].spans[j], 1, settings)]]
    /\ pc' = "spans"
    /\ UNCHANGED <<settings, block_json, block_data, line_chunks, block_chunk,
                   textVars, serviceVars, heightVars>>

LineChunks ==
    /\ pc = "spans"
    /\ line_chunks' =
           [i \in 1..Len(block_data[1].lines) |->
               from_line_data(block_data[1].lines[i], 1, settings)]
    /\ pc' = "lines"
    /\ UNCHANGED <<settings, block_json, block_data, span_chunks, block_chunk,
                   textVars, serviceVars, heightVars>>

BlockChunk ==
    /\ pc = "lines"
    /\ block_chunk' = Some(from_block_data(block_data[1], 1, settings))
    /\ pc' = "block"
    /\ UNCHANGED <<settings, block_json, block_data, span_chunks, line_chunks,
                   textVars, serviceVars, heightVars>>

ChunkNext == BuildBlock \/ SpanChunks \/ LineChunks \/ BlockChunk

ChunkSpec == ChunkInit /\ [][ChunkNext]_vars

---------------------------------------------------------------
(* HeightSpec: one upstream line record, built, then measured. *)

MaxHeightSpans == 3
SpanHeights == {-10, 0, 10, 12, 100}

\* A line whose j-th span has its lower edge at j and the given height.
LineJson(heights) ==
    [bbox |-> SampleBox,
     spans |-> [j \in 1..Len(heights) |->
                   [bbox |-> <<0, j, 1, j + heights[j]>>, text |-> <<"a">>]]]

LineInputs == {LineJson(hs) : hs \in SeqsUpTo(SpanHeights, MaxHeightSpans)}

HeightInit ==
    /\ pc = "line_json"
    /\ settings = None
    /\ measured_json \in {Some(l) : l \in LineInputs}
    /\ measured_line = None
    /\ variation = None
    /\ TextIdle
    /\ ChunkIdle
    /\ ServiceIdle

BuildLine ==
    /\ pc = "line_json"
    /\ measured_line' = Some(from_pymupdf_line_json(measured_json[1]))
    /\ pc' = "line_data"
    /\ UNCHANGED <<settings, measured_json, variation, textVars, chunkVars,
                   serviceVars>>

HeightVariation ==
    /\ pc = "line_data"
    /\ variation' = Some(height_variation(measured_line[1]))
    /\ pc' = "measured"
    /\ UNCHANGED <<settings, measured_json, measured_line, textVars,
                   chunkVars, serviceVars>>

HeightNext == BuildLine \/ HeightVariation

HeightSpec == HeightInit /\ [][HeightNext]_vars

----------------------------------------------------------------------------
(* Extractor: the two entry points, and the /extract handler. *)

Granularities == {"spans", "lines", "blocks"}

RECURSIVE span_loop(_, _, _)
\* `for span in line.spans: text_chunks.append(from_span_data(span, ...))`
span_loop(spans, page_number, text_chunks) ==
    IF spans = <<>> THEN text_chunks
    ELSE span_loop(Tail(spans), page_number,
                   Append(text_chunks,
                          from_span_data(Head(spans), page_number, None)))

RECURSIVE line_loop(_, _, _, _)
\* `for line in block.lines:` of the spans and of the lines branch
line_loop(lines, gran, page_number, text_chunks) ==
    IF lines = <<>> THEN text_chunks
    ELSE line_loop(Tail(lines), gran, page_number,
                   IF gran = "spans"
                   THEN span_loop(Head(lines).spans, page_number, text_chunks)
                   ELSE Append(text_chunks,
                               from_line_data(Head(lines), page_number, None)))

RECURSIVE block_loop(_, _, _, _)
\* `for block in page.blocks:` of the three branches
block_loop(blocks, gran, page_number, text_chunks) ==
    IF blocks = <<>> THEN text_chunks
    ELSE block_loop(Tail(blocks), gran, page_number,
                    IF gran = "blocks"
                    THEN Append(text_chunks,
                                from_block_data(Head(blocks), page_number, None))
                    ELSE line_loop(Head(blocks).lines, gran, page_number,
                                   text_chunks))

\* A mutant of page_loop: the pages are walked from the last to the first.
RECURSIVE page_loop_reversed(_, _, _)
page_loop_reversed(pages, gran, text_chunks) ==
    IF pages = <<>> THEN text_chunks
    ELSE LET page == pages[Len(pages)]
         IN  page_loop_reversed(
                 SubSeq(pages, 1, Len(pages) - 1), gran,
                 IF gran \in Granularities
                 THEN block_loop(page.blocks, gran, page.page_number,
                                 text_chunks)
                 ELSE text_chunks)

RECURSIVE page_loop(_, _, _)
\* `for page in pdf_page_data:`; a value of `by` that matches no branch of
\* the if/elif chain adds nothing for the page.
page_loop(pages, gran, text_chunks) ==
    IF pages = <<>> THEN text_chunks
    ELSE LET page == Head(pages)
         IN  page_loop(Tail(pages), gran,
                       IF gran \in Granularities
                       THEN block_loop(page.blocks, gran, page.page_number,
                                       text_chunks)
                       ELSE text_chunks)

\* Extractor.page_data_to_text_chunks as a caller reaches it: the signature
\* takes (pdf_page_data, by) only, so any further keyword argument ends the
\* call with a TypeError before the body runs.
page_data_to_text_chunks(pages, gran, keywords) ==
    IF keywords # None
    THEN [status |-> "TypeError", text_chunks |-> <<>>]
    ELSE [status |-> "returned", text_chunks |-> page_loop(pages, gran, <<>>)]

\* The body of Extractor.extract_pdf after the fetch: one PageData per page,
\* numbered from 1.
build_pages(doc) ==
    [i \in 1..Len(doc) |-> from_pymupdf_textpage_json(doc[i], i)]

\* What that loop raises: the first page whose construction fails ends it.
extract_pdf_raises(doc) ==
    first_raised([i \in 1..Len(doc) |->
                     from_pymupdf_textpage_json_raises(doc[i])])

(* The documents upstream may return. *)

BlankTexts == << <<<<" ">>, <<>>>>, <<>> >>
SampleBlocks == {BlockJson(SampleBox, 0, SampleTexts),
                 BlockJson(<<1, 2, 1, 0>>, 1, BlankTexts)}
\* The blocks of a page carry distinct numbers.
DistinctNumbers(bs) ==
    \A i, j \in 1..Len(bs) : i # j => bs[i].number # bs[j].number
PageJsons == {[height |-> 3, width |-> 2, blocks |-> bs] :
                 bs \in {s \in SeqsUpTo(SampleBlocks, MaxBlocks) :
                            DistinctNumbers(s)}}
Docs == SeqsUpTo(PageJsons, MaxPages)

(* Upstream records with one required field absent, or with a bbox list that
   has not four entries.  The damaged record is the last of its siblings, so
   that sound records come before it. *)

Without(record, field) == [k \in DOMAIN record \ {field} |-> record[k]]

ShortBox == <<0, 0, 2>>
LongBox == <<0, 0, 2, 1, 2>>
WrongBoxes(record) == {[record EXCEPT !.bbox = b] : b \in {ShortBox, LongBox}}

GoodBlock == BlockJson(SampleBox, 0, SampleTexts)
GoodLine == GoodBlock.lines[2]
GoodSpan == GoodLine.spans[1]
GoodPage == [height |-> 3, width |-> 2, blocks |-> <<GoodBlock>>]

MalformedSpans ==
    {Without(GoodSpan, f) : f \in {"bbox", "text"}} \cup WrongBoxes(GoodSpan)
MalformedLines ==
    {Without(GoodLine, f) : f \in {"bbox", "spans"}}
        \cup WrongBoxes(GoodLine)
        \cup {[GoodLine EXCEPT !.spans = <<sp>>] : sp \in MalformedSpans}
MalformedBlocks ==
    {Without(GoodBlock, f) : f \in {"bbox", "number", "lines"}}
        \cup WrongBoxes(GoodBlock)
        \cup {[GoodBlock EXCEPT !.lines = <<GoodBlock.lines[1], ln>>] :
                  ln \in MalformedLines}
MalformedPages ==
    {Without(GoodPage, f) : f \in {"height", "width", "blocks"}}
        \cup {[GoodPage EXCEPT !.blocks = <<GoodBlock, b>>] :
                  b \in MalformedBlocks}
MalformedDocs ==
    {<<p>> : p \in MalformedPages} \cup {<<GoodPage, p>> : p \in MalformedPages}

UpstreamDocs == Docs \cup MalformedDocs

EndToEnd ==
    [filter_non_english_words |-> TRUE, min_word_length |-> 2,
     min_word_frequency |-> 3, remove_non_alpha |-> TRUE]
CallerSettings == {None, Some(EndToEnd)}
ByValues == Granularities \cup {"span"}

TotalCalls == extract_calls["u1"] + extract_calls["u2"]

Init ==
    /\ pc = "idle"
    /\ settings = None
    /\ TextIdle
    /\ ChunkIdle
    /\ ServiceIdle
    /\ HeightIdle

\* A mutant of ExtractPdf: a url fetched before is not fetched again.
ExtractPdfMemo(pdf_url, doc) ==
    /\ pc = "idle"
    /\ TotalCalls < MaxCalls
    /\ extract_calls' = [extract_calls EXCEPT ![pdf_url] = @ + 1]
    /\ upstream_calls' = [upstream_calls EXCEPT
                              ![pdf_url] = IF @ = 0 THEN 1 ELSE @]
    /\ page_json' = doc
    /\ IF extract_pdf_raises(doc) = ""
       THEN /\ pdf_page_data' = build_pages(doc)
            /\ pc' = "extracted"
            /\ UNCHANGED outcome
       ELSE /\ pdf_page_data' = <<>>
            /\ pc' = "raised"
            /\ outcome' = [status |-> extract_pdf_raises(doc),
                           text_chunks |-> <<>>]
    /\ UNCHANGED <<settings, textVars, chunkVars, heightVars, by, kwargs,
                   http_status>>

\* Extractor.extract_pdf(pdf_url): fetch, then build the pages.  Nothing in
\* it catches what a constructor raises, so the call ends there with that
\* exception and returns no list.
ExtractPdf(pdf_url, doc) ==
    /\ pc = "idle"
    /\ TotalCalls < MaxCalls
    /\ extract_calls' = [extract_calls EXCEPT ![pdf_url] = @ + 1]
    /\ upstream_calls' = [upstream_calls EXCEPT ![pdf_url] = @ + 1]
    /\ page_json' = doc
    /\ IF extract_pdf_raises(doc) = ""
       THEN /\ pdf_page_data' = build_pages(doc)
            /\ pc' = "extracted"
            /\ UNCHANGED outcome
       ELSE /\ pdf_page_data' = <<>>
            /\ pc' = "raised"
            /\ outcome' = [status |-> extract_pdf_raises(doc),
                           text_chunks |-> <<>>]
    /\ UNCHANGED <<settings, textVars, chunkVars, heightVars, by, kwargs,
                   http_status>>

\* Extractor.page_data_to_text_chunks on the pages just extracted.
PageDataToTextChunks(gran, keywords) ==
    /\ pc = "extracted"
    /\ by' = gran
    /\ kwargs' = keywords
    /\ outcome' = page_data_to_text_chunks(pdf_page_data, gran, keywords)
    /\ pc' = "chunked"
    /\ UNCHANGED <<settings, textVars, chunkVars, heightVars, upstream_calls,
                   extract_calls, page_json, pdf_page_data, http_status>>

\* The requests a client may post.
ExtractRequests ==
    [pdf_url : Urls, by : Granularities,
     filter_non_english_words : {TRUE}, min_word_length : {2},
     min_word_frequency : {3}, remove_non_alpha : BOOLEAN]

\* main.extract_pdf, the POST /extract handler: it extracts, then calls
\* page_data_to_text_chunks with the request's four settings as keyword
\* arguments; whatever is raised becomes a 400 response.
ApiExtract(doc) ==
    /\ pc = "idle"
    /\ TotalCalls < MaxCalls
    /\ \E raised \in {extract_pdf_raises(doc)}, request \in ExtractRequests :
           /\ extract_calls' =
                  [extract_calls EXCEPT ![request.pdf_url] = @ + 1]
           /\ upstream_calls' =
                  [upstream_calls EXCEPT ![request.pdf_url] = @ + 1]
           /\ LET result ==
                      IF raised # ""
                      THEN [status |-> raised, text_chunks |-> <<>>]
                      ELSE page_data_to_text_chunks(
                               build_pages(doc), request.by,
                               Some([filter_non_english_words |->
                                         request.filter_non_english_words,
                                     min_word_length |->
                                         request.min_word_length,
                                     min_word_frequency |->
                                         request.min_word_frequency,
                                     remove_non_alpha |->
                                         request.remove_non_alpha]))
              IN  /\ http_status' =
                         IF result.status = "returned" THEN 200 ELSE 400
                  /\ outcome' = [status |-> result.status,
                                 text_chunks |-> <<>>]
           /\ by' = request.by
    /\ kwargs' = None
    /\ page_json' = <<>>
    /\ pdf_page_data' = <<>>
    /\ pc' = "responded"
    /\ UNCHANGED <<settings, textVars, chunkVars, heightVars>>

\* The command or request is over: its local values are dropped.
Return ==
    /\ pc \in {"extracted", "raised", "chunked", "responded"}
    /\ pc' = "idle"
    /\ page_json' = <<>>
    /\ pdf_page_data' = <<>>
    /\ by' = ""
    /\ kwargs' = None
    /\ outcome' = [status |-> "", text_chunks |-> <<>>]
    /\ http_status' = 0
    /\ UNCHANGED <<settings, textVars, chunkVars, heightVars, upstream_calls,
                   extract_calls>>

\* A caller is at the point of a call before its arguments are chosen.
Next ==
    \/ pc = "idle" /\ \E u \in Urls, doc \in UpstreamDocs : ExtractPdf(u, doc)
    \/ pc = "extracted" /\ \E gran \in ByValues, keywords \in CallerSettings :
                              PageDataToTextChunks(gran, keywords)
    \/ pc = "idle" /\ \E doc \in UpstreamDocs : ApiExtract(doc)
    \/ Return

Spec == Init /\ [][Next]_vars

----------------------------------------------------------------------------
(* The whitespace-separated words of a string, read off its positions.     *)

WordRuns(s) ==
    {r \in (1..Len(s)) \X (1..Len(s)) :
        /\ r[1] <= r[2]
        /\ \A i \in r[1]..r[2] : s[i] \notin Whitespace
        /\ (r[1] = 1 \/ s[r[1] - 1] \in Whitespace)
        /\ (r[2] = Len(s) \/ s[r[2] + 1] \in Whitespace)}

WordsOf(s) ==
    LET R == WordRuns(s)
        nth(k) == CHOOSE r \in R : Cardinality({q \in R : q[1] < r[1]}) = k - 1
    IN  [k \in 1..Cardinality(R) |-> SubSeq(s, nth(k)[1], nth(k)[2])]

RECURSIVE SumLen(_)
SumLen(ws) == IF ws = <<>> THEN 0 ELSE Len(Head(ws)) + SumLen(Tail(ws))

PassesTests(word, s) ==
    /\ (~s.remove_non_alpha \/ \A i \in 1..Len(word) : word[i] \in Alphabetic)
    /\ Len(word) >= s.min_word_length
    /\ (~s.filter_non_english_words
        \/ zipf_frequency(word) >= s.min_word_frequency)

Survivors(s, t) ==
    LET Test(w) == PassesTests(w, s) IN SelectSeq(WordsOf(t), Test)

\* C6: clean_text returns exactly the whitespace-separated words of the text
\* that pass the three tests (alphabetic, length, frequency), in their original
\* order and joined by single spaces: the words of the result are the
\* survivors, the result is as long as the survivors plus one separator
\* between neighbours, every separator is a space, and the empty string maps
\* to the empty string.
C6_CleanTextKeepsPassingWords ==
    pc = "cleaned" =>
        LET kept == Survivors(settings[1], text)
        IN  /\ WordsOf(cleaned) = kept
            /\ Len(cleaned) = SumLen(kept)
                              + (IF kept = <<>> THEN 0 ELSE Len(kept) - 1)
            /\ \A i \in 1..Len(cleaned) :
                   cleaned[i] \in Whitespace => cleaned[i] = " "
            /\ (text = <<>> => cleaned = <<>>)

\* C6 witness: a text of two words of which exactly one survives.
C6_Witness ==
    /\ pc = "cleaned"
    /\ Len(WordsOf(text)) = 2
    /\ Len(WordsOf(cleaned)) = 1
    /\ settings[1].min_word_length = 1

\* C7: with remove_non_alpha set, cleaning the cleaned text again with the
\* same settings changes nothing.
C7_CleanTextIdempotent ==
    (pc = "recleaned" /\ settings[1].remove_non_alpha) => recleaned = cleaned

\* C7 witness: a second cleaning of a text the first cleaning changed and
\* left non-empty.
C7_Witness ==
    /\ pc = "recleaned"
    /\ settings[1].remove_non_alpha
    /\ cleaned # text
    /\ cleaned # <<>>

----------------------------------------------------------------------------
(* Claims about the chunk constructors (ChunkSpec). *)

BoxOf(chunk, bbox) ==
    /\ chunk.px_left = bbox[1]
    /\ chunk.px_bottom = bbox[2]
    /\ chunk.width = bbox[3] - bbox[1]
    /\ chunk.height = bbox[4] - bbox[2]

NonEmpty(parts) == LET Test(t) == t # <<>> IN SelectSeq(parts, Test)

\* The texts of the span chunks of line i.
SpanChunkTexts(i) == [j \in 1..Len(span_chunks[i]) |-> span_chunks[i][j].text]

\* C4: the line-granularity chunk text is the single-space join, in span
\* order, of only the non-empty span-granularity chunk texts of that line.
C4_LineTextJoinsNonEmptySpans ==
    pc \in {"lines", "block"} =>
        \A i \in 1..Len(line_chunks) :
            line_chunks[i].text = join(<<" ">>, NonEmpty(SpanChunkTexts(i)))

\* C5: the block-granularity chunk text is the single-space join, in line
\* order, of only the non-empty per-line texts, each the single-space join of
\* the line's non-empty span texts.
C5_BlockTextJoinsNonEmptyLines ==
    pc = "block" =>
        block_chunk[1].text =
            join(<<" ">>,
                 NonEmpty([i \in 1..Len(span_chunks) |->
                              join(<<" ">>, NonEmpty(SpanChunkTexts(i)))]))

\* C10: the chunk derived from an upstream box [x0, y0, x1, y1] of a span,
\* line or block has left = x0, bottom = y0, width = x1 - x0 and
\* height = y1 - y0, negative and zero measures included.
C10_ChunkBoxIsUpstreamBox ==
    /\ pc \in {"spans", "lines", "block"} =>
           \A i \in 1..Len(span_chunks) : \A j \in 1..Len(span_chunks[i]) :
               BoxOf(span_chunks[i][j], block_json[1].lines[i].spans[j].bbox)
    /\ pc \in {"lines", "block"} =>
           \A i \in 1..Len(line_chunks) :
               BoxOf(line_chunks[i], block_json[1].lines[i].bbox)
    /\ pc = "block" => BoxOf(block_chunk[1], block_json[1].bbox)

\* C10 witness: a block of negative width and zero height, with a line of
\* positive height and a span of negative height.
C10_Witness ==
    /\ pc = "block"
    /\ block_chunk[1].width < 0
    /\ block_chunk[1].height = 0
    /\ \E i \in 1..Len(line_chunks) : line_chunks[i].height > 0
    /\ \E i \in 1..Len(span_chunks) : \E j \in 1..Len(span_chunks[i]) :
           span_chunks[i][j].height < 0

----------------------------------------------------------------------------
(* Claims about the entry points (Spec). *)

Returned == pc = "chunked" /\ outcome.status = "returned"

Blank(t) == \A i \in 1..Len(t) : t[i] \in Whitespace

\* C1: the sequence the chunk-building entry point returns holds no chunk
\* whose text is empty or made of whitespace only.
C1_NoBlankChunk ==
    Returned =>
        \A k \in 1..Len(outcome.text_chunks) : ~Blank(outcome.text_chunks[k].text)

(* The places of the upstream records a granularity turns into chunks:      *)
(* <<page, block, line, span>>, 0 where the granularity stops above.        *)
Places(doc, gran) ==
    {q \in (1..Len(doc)) \X (1..MaxBlocks)
            \X (IF gran = "blocks" THEN {0} ELSE 1..MaxLines)
            \X (IF gran = "spans" THEN 1..MaxSpans ELSE {0}) :
        /\ q[2] <= Len(doc[q[1]].blocks)
        /\ q[3] > 0 => q[3] <= Len(doc[q[1]].blocks[q[2]].lines)
        /\ q[4] > 0 => q[4] <= Len(doc[q[1]].blocks[q[2]].lines[q[3]].spans)}

Before(q, r) ==
    \E n \in 1..4 : q[n] < r[n] /\ \A m \in 1..(n - 1) : q[m] = r[m]

\* The position in the output of the chunk of place q: one more than the
\* number of places before it in page, block, line, span order.
Rank(places, q) == 1 + Cardinality({r \in places : Before(r, q)})

\* The upstream record at place q, and its raw text at the granularity.
RecordAt(doc, q) ==
    LET block == doc[q[1]].blocks[q[2]]
    IN  IF q[3] = 0 THEN block
        ELSE IF q[4] = 0 THEN block.lines[q[3]]
        ELSE block.lines[q[3]].spans[q[4]]

SpanTextsOf(line_json) ==
    [j \in 1..Len(line_json.spans) |-> line_json.spans[j].text]

\* C2: the chunks come in the order of the input, pages first, then blocks,
\* lines and spans as supplied, one chunk per record with none dropped or
\* merged, and each chunk carries the number of its page and the box of its
\* record.
C2_ChunksInInputOrder ==
    (Returned /\ by \in Granularities) =>
        LET chunks == outcome.text_chunks
            places == Places(page_json, by)
        IN  /\ Len(chunks) = Cardinality(places)
            /\ \A q \in places :
                   LET chunk == chunks[Rank(places, q)]
                       record == RecordAt(page_json, q)
                   IN  /\ chunk.page_number = q[1]
                       /\ BoxOf(chunk, record.bbox)
                       /\ by = "spans" => chunk.text = record.text
                       /\ by = "lines" =>
                              chunk.text = join(<<" ">>, SpanTextsOf(record))
            /\ \A k \in 1..(Len(chunks) - 1) :
                   chunks[k].page_number <= chunks[k + 1].page_number

\* C2 witness: two pages, the first with two different blocks, returned at
\* span granularity.
C2_Witness ==
    /\ Returned
    /\ by = "spans"
    /\ Len(page_json) = 2
    /\ Len(page_json[1].blocks) = 2
    /\ page_json[1].blocks[1] # page_json[1].blocks[2]
    /\ Len(page_json[2].blocks) >= 1
    /\ Len(outcome.text_chunks) >= 5

\* C3: at span granularity the entry point emits one chunk per span, whose
\* text is the cleaned span text when the caller supplies settings and the
\* raw span text when it supplies none.
C3_SpanChunksUseCallerSettings ==
    (pc = "chunked" /\ by = "spans") =>
        /\ outcome.status = "returned"
        /\ Len(outcome.text_chunks) = Cardinality(Places(page_json, "spans"))
        /\ \A q \in Places(page_json, "spans") :
               outcome.text_chunks[Rank(Places(page_json, "spans"), q)].text =
                   IF kwargs = None
                   THEN RecordAt(page_json, q).text
                   ELSE clean_text(RecordAt(page_json, q).text, kwargs[1])

\* C8: a granularity other than spans, lines, blocks ends the call in an
\* InvalidGranularityError; no chunk sequence is returned.
C8_UnknownGranularityRaises ==
    (pc = "chunked" /\ by \notin Granularities) =>
        outcome.status = "InvalidGranularityError"

WellFormedBox(b) == Len(b) = 4

WellFormedSpan(sp) ==
    /\ {"bbox", "text"} \subseteq DOMAIN sp
    /\ WellFormedBox(sp.bbox)

WellFormedLine(ln) ==
    /\ {"bbox", "spans"} \subseteq DOMAIN ln
    /\ WellFormedBox(ln.bbox)
    /\ \A j \in 1..Len(ln.spans) : WellFormedSpan(ln.spans[j])

WellFormedBlock(b) ==
    /\ {"bbox", "number", "lines"} \subseteq DOMAIN b
    /\ WellFormedBox(b.bbox)
    /\ \A i \in 1..Len(b.lines) : WellFormedLine(b.lines[i])

WellFormedPage(p) ==
    /\ {"height", "width", "blocks"} \subseteq DOMAIN p
    /\ \A i \in 1..Len(p.blocks) : WellFormedBlock(p.blocks[i])

WellFormedDoc(doc) == \A i \in 1..Len(doc) : WellFormedPage(doc[i])

\* C11: when an upstream page record lacks a required field or has one of the
\* wrong shape, the extraction call ends in a MalformedStructureError and
\* returns no page list.
C11_MalformedRecordRaises ==
    (pc \in {"extracted", "raised"} /\ ~WellFormedDoc(page_json)) =>
        /\ pc = "raised"
        /\ outcome.status = "MalformedStructureError"
        /\ pdf_page_data = <<>>

(* Height variation of a line. *)

RECURSIVE GCD(_, _)
GCD(a, b) == IF b = 0 THEN a ELSE GCD(b, a % b)

\* Two values kept as sign and squared fraction are the same number.
SameFloat(x, y) ==
    /\ x.sign = y.sign
    /\ x.sq_den > 0 /\ y.sq_den > 0
    /\ x.sq_num \div GCD(x.sq_num, x.sq_den) =
           y.sq_num \div GCD(y.sq_num, y.sq_den)
    /\ x.sq_den \div GCD(x.sq_num, x.sq_den) =
           y.sq_den \div GCD(y.sq_num, y.sq_den)

\* x > 0.1
AboveTenth(x) == x.sign > 0 /\ 100 * x.sq_num > x.sq_den

\* The span heights of the upstream line, read off its bbox lists.
UpstreamHeights ==
    [j \in 1..Len(measured_json[1].spans) |->
        measured_json[1].spans[j].bbox[4] - measured_json[1].spans[j].bbox[2]]

\* The sum over all pairs of spans of their squared height difference:
\* n * n times the population variance, n * (n - 1) times the sample variance.
PairSquares(hs) ==
    LET Pairs == {q \in (1..Len(hs)) \X (1..Len(hs)) : q[1] < q[2]}
        Add[S \in SUBSET Pairs] ==
            IF S = {} THEN 0
            ELSE LET q == CHOOSE r \in S : TRUE
                 IN  (hs[q[1]] - hs[q[2]]) * (hs[q[1]] - hs[q[2]])
                         + Add[S \ {q}]
    IN  Add[Pairs]

\* What height_variation is when the deviation is divided by divisor:
\* n for the population standard deviation, n - 1 for the sample one.
VariationOver(hs, divisor) ==
    IF Len(hs) < 2 \/ sum(hs) = 0 THEN ZeroFloat
    ELSE [sign |-> IF PairSquares(hs) = 0 THEN 0 ELSE sign(sum(hs)),
          sq_num |-> Len(hs) * PairSquares(hs),
          sq_den |-> divisor * sum(hs) * sum(hs)]

\* C12 as stated: height_variation is 0.0 for fewer than two spans or mean 0,
\* otherwise the population standard deviation of the span heights over
\* their mean; for positive mean it is above 0.1 exactly when 100 times the
\* population variance is above the squared mean; it is 0.0 for heights
\* 10, 10, 10, above 0.1 for 10, 10, 100 and not above 0.1 for 10, 12.
C12_PopulationVariation ==
    pc = "measured" =>
        LET hs == UpstreamHeights
        IN  /\ SameFloat(variation[1], VariationOver(hs, Len(hs)))
            /\ (Len(hs) >= 2 /\ sum(hs) > 0) =>
                   (AboveTenth(variation[1]) <=>
                        100 * PairSquares(hs) > sum(hs) * sum(hs))
            /\ hs = <<10, 10, 10>> => SameFloat(variation[1], ZeroFloat)
            /\ hs = <<10, 10, 100>> => AboveTenth(variation[1])
            /\ hs = <<10, 12>> => ~AboveTenth(variation[1])

\* C12 as amended: height_variation is 0.0 for fewer than two spans or mean
\* 0, otherwise the sample standard deviation (divisor n - 1) of the span
\* heights over their mean; for positive mean it is above 0.1 exactly when
\* 100 * n times the population variance is above n - 1 times the squared
\* mean; it is 0.0 for heights 10, 10, 10 and above 0.1 both for 10, 10, 100
\* and for 10, 12.
C12_SampleVariation ==
    pc = "measured" =>
        LET hs == UpstreamHeights
        IN  /\ SameFloat(variation[1], VariationOver(hs, Len(hs) - 1))
            /\ (Len(hs) >= 2 /\ sum(hs) > 0) =>
                   (AboveTenth(variation[1]) <=>
                        100 * Len(hs) * PairSquares(hs) >
                            (Len(hs) - 1) * sum(hs) * sum(hs))
            /\ hs = <<10, 10, 10>> => SameFloat(variation[1], ZeroFloat)
            /\ hs = <<10, 10, 100>> => AboveTenth(variation[1])
            /\ hs = <<10, 12>> => AboveTenth(variation[1])

\* C12 witness: a line with span heights 10 and 12 has been measured, and
\* its variation is above 0.1.
C12_Witness ==
    /\ pc = "measured"
    /\ UpstreamHeights = <<10, 12>>
    /\ AboveTenth(variation[1])

====
